---- MODULE Spec2Model ----
(***************************************************************************)
(* Model of Class05_classic_CV/remove_similar_lines.py: pairwise line      *)
(* distances, greedy founder-seeded grouping and per-group reduction.      *)
(*                                                                         *)
(* Real numbers are fixed-point integers: a length or a line coefficient   *)
(* v is the integer v * Scale, an angle a (radians) is the integer         *)
(* a * AnglePerRad.  The input segments are drawn from Segs, whose         *)
(* endpoint distances are whole numbers dividing Scale, so that the        *)
(* normalisation of line_to_canonical is exact in this arithmetic; on      *)
(* every batch over Segs and every threshold of Thresholds the float       *)
(* results of the source compare with the threshold as the exact values    *)
(* do.  Lines are tuples of Python floats, as the signatures declare: a    *)
(* division by a zero norm raises ZeroDivisionError.  The two ValueError   *)
(* raise sites are told apart as "InvalidArgument" (missing points) and    *)
(* "UnknownMethod".  Segment indices are 0-based, as in the source.        *)
(***************************************************************************)
EXTENDS Integers, Sequences, FiniteSets

VARIABLES op, lines, threshold, method, keep_longest, canon, points,
          pc, i, j, distance_matrix, visited, groups, group,
          unique_lines, dist, result

vars == <<op, lines, threshold, method, keep_longest, canon, points,
          pc, i, j, distance_matrix, visited, groups, group,
          unique_lines, dist, result>>

(***************************************************************************)
(* Bounds and input sets                                                   *)
(***************************************************************************)
MaxN == 3

\* fixed-point units per unit of length: a multiple of 2 and of every
\* segment length of Segs
Scale == 2 * 2 * 2 * 3 * 5 * 5

\* angle units per radian
AnglePerRad == 100 * 100

\* math.pi and math.pi / 2 in angle units
Pi == 31416

HalfPi == 15708

\* float('inf'): above every finite distance and threshold
Inf == 2000000000

None == <<>>

ValidMethods == {"parallel", "angle", "center", "combined", "hausdorff"}

Methods == ValidMethods \cup {"bogus"}

Segs == { <<0, 0, 4, 0>>,     \* horizontal, length 4
          <<0, 1, 2, 1>>,     \* horizontal, length 2
          <<2, 1, 0, 1>>,     \* the same segment, endpoints swapped
          <<0, 0, 0, 3>>,     \* vertical, length 3
          <<0, 4, 4, 1>>,     \* slanted, length 5
          <<1, 1, 1, 1>> }    \* zero length

Thresholds == {-1 * Scale, 0, 1 * Scale, 10 * Scale}

BatchOps == {"calculate_line_distances", "find_similar_lines", "remove_similar_lines"}

(***************************************************************************)
(* Arithmetic helpers                                                      *)
(***************************************************************************)
Abs(x) == IF x < 0 THEN -x ELSE x

Sgn(x) == IF x < 0 THEN -1 ELSE IF x > 0 THEN 1 ELSE 0

Min2(a, b) == IF b < a THEN b ELSE a

Max2(a, b) == IF b > a THEN b ELSE a

RECURSIVE SqrtSearch(_, _, _)
SqrtSearch(n, lo, hi) ==
    IF lo >= hi THEN lo
    ELSE LET mid == (lo + hi + 1) \div 2
         IN IF mid * mid <= n THEN SqrtSearch(n, mid, hi)
                              ELSE SqrtSearch(n, lo, mid - 1)

\* math.sqrt on a fixed-point square (scale Scale^2): the result has scale Scale
Sqrt(n) == SqrtSearch(n, 0, Min2(n, 46340))

\* float division a / b of two fixed-point numbers, symmetric in sign
FDiv(a, b) == Sgn(a) * Sgn(b) * ((Abs(a) * Scale) \div Abs(b))

(***************************************************************************)
(* Geometry primitives                                                     *)
(***************************************************************************)
line_to_canonical(line) ==
    LET x1 == line[1] * Scale
        y1 == line[2] * Scale
        x2 == line[3] * Scale
        y2 == line[4] * Scale
        A == y2 - y1
        B == x1 - x2
        C == (x2 * y1 - x1 * y2) \div Scale
        norm == Sqrt(A * A + B * B)
    IN IF norm > 0 THEN <<FDiv(A, norm), FDiv(B, norm), FDiv(C, norm)>>
                   ELSE <<A, B, C>>

\* sqrt(A**2 + B**2), the divisor of point_to_line_distance
line_norm(line) == Sqrt(line[1] * line[1] + line[2] * line[2])

\* point is a fixed-point pair; the caller has checked line_norm(line) # 0
point_to_line_distance(point, line) ==
    Abs(line[1] * point[1] + line[2] * point[2] + line[3] * Scale)
        \div line_norm(line)

line_center(line) ==
    <<((line[1] + line[3]) * Scale) \div 2, ((line[2] + line[4]) * Scale) \div 2>>

\* math.atan(y / x) for y, x >= 0, in angle units, on the slopes that the
\* segments of Segs have: 0, 3/4, 4/3 and the vertical
Atan(y, x) ==
    IF y = 0 THEN 0
    ELSE IF x = 0 THEN HalfPi
    ELSE IF 4 * y = 3 * x THEN 6435
    ELSE 9273

\* math.atan2(y, x), by quadrant
Atan2(y, x) ==
    IF x > 0 THEN Sgn(y) * Atan(Abs(y), x)
    ELSE IF x < 0 THEN IF y >= 0 THEN Pi - Atan(y, -x) ELSE Atan(-y, -x) - Pi
    ELSE Sgn(y) * HalfPi

line_angle(line) ==
    IF line[2] = 0 THEN HalfPi
    ELSE Atan2(-line[1], line[2]) % Pi

(***************************************************************************)
(* Distance metric                                                         *)
(***************************************************************************)
Ok(v) == [err |-> "none", val |-> v]

Err(e) == [err |-> e, val |-> 0]

\* min(abs(angle1 - angle2), math.pi - abs(angle1 - angle2))
angle_diff(l1, l2) ==
    Min2(Abs(line_angle(l1) - line_angle(l2)),
         Pi - Abs(line_angle(l1) - line_angle(l2)))

\* an angle times a weight, as a fixed-point number
AngleTimes(a, w) == (a * w * Scale) \div AnglePerRad

center_distance(p1, p2) ==
    LET dx == line_center(p1)[1] - line_center(p2)[1]
        dy == line_center(p1)[2] - line_center(p2)[2]
    IN Sqrt(dx * dx + dy * dy)

EndPoints(p) == << <<p[1] * Scale, p[2] * Scale>>, <<p[3] * Scale, p[4] * Scale>> >>

\* one loop of the hausdorff branch: max_min_dist after the two points of p
\* have been measured against line l, starting from m
HausdorffPass(m, p, l) ==
    LET min_dist(q) == Min2(point_to_line_distance(q, l), point_to_line_distance(q, l))
    IN Max2(Max2(m, min_dist(EndPoints(p)[1])), min_dist(EndPoints(p)[2]))

\* raise ValueError(f"Неизвестный метод: {method}")
UnknownMethod_Ignored(m) == Ok(0)

UnknownMethod(m) == Err("UnknownMethod")

lines_distance(line1_canonical, line2_canonical, line1_points, line2_points, m) ==
    IF m = "parallel" THEN
        LET dot_product == Abs(line1_canonical[1] * line2_canonical[1]
                               + line1_canonical[2] * line2_canonical[2])
        IN IF 100 * dot_product < 95 * Scale * Scale
           THEN Ok(Inf)
           ELSE Ok(Abs(line2_canonical[3] - line1_canonical[3]))
    ELSE IF m = "angle" THEN
        Ok(AngleTimes(angle_diff(line1_canonical, line2_canonical), 100))
    ELSE IF m = "center" THEN
        IF line1_points = None \/ line2_points = None
        THEN Err("InvalidArgument")
        ELSE Ok(center_distance(line1_points, line2_points))
    ELSE IF m = "combined" THEN
        IF line1_points = None \/ line2_points = None
        THEN Err("InvalidArgument")
        ELSE IF line_norm(line2_canonical) = 0 \/ line_norm(line1_canonical) = 0
        THEN Err("ZeroDivisionError")
        ELSE LET dist1_to_2 == point_to_line_distance(line_center(line1_points), line2_canonical)
                 dist2_to_1 == point_to_line_distance(line_center(line2_points), line1_canonical)
                 line_distance == (dist1_to_2 + dist2_to_1) \div 2
             IN Ok(AngleTimes(angle_diff(line1_canonical, line2_canonical), 50)
                   + center_distance(line1_points, line2_points) \div 2
                   + line_distance)
    ELSE IF m = "hausdorff" THEN
        IF line1_points = None \/ line2_points = None
        THEN Err("InvalidArgument")
        ELSE IF line_norm(line2_canonical) = 0 \/ line_norm(line1_canonical) = 0
        THEN Err("ZeroDivisionError")
        ELSE Ok(HausdorffPass(HausdorffPass(0, line1_points, line2_canonical),
                              line2_points, line1_canonical))
    ELSE UnknownMethod(m)

(***************************************************************************)
(* State machine: one call of one of the four functions                    *)
(***************************************************************************)
\* len(lines)
N == Cardinality(DOMAIN lines)

Batches == UNION { [0 .. (n - 1) -> Segs] : n \in 0 .. MaxN }

\* np.zeros((n, n))
Zeros(n) == [a \in 0 .. (n - 1) |-> [b \in 0 .. (n - 1) |-> 0]]

Init ==
    /\ op \in BatchOps \cup {"lines_distance"}
    /\ method \in Methods
    /\ IF op = "lines_distance"
       THEN /\ lines = <<>>
            /\ \E s1 \in Segs, s2 \in Segs :
                  /\ canon = <<line_to_canonical(s1), line_to_canonical(s2)>>
                  /\ points \in {<<p1, p2>> : p1 \in {s1, None}, p2 \in {s2, None}}
            /\ pc = "call"
       ELSE /\ lines \in Batches
            /\ canon = <<>>
            /\ points = <<>>
            /\ pc = "matrix"
    /\ IF op \in {"find_similar_lines", "remove_similar_lines"}
       THEN threshold \in Thresholds
       ELSE threshold = 0
    /\ IF op = "remove_similar_lines"
       THEN keep_longest \in BOOLEAN
       ELSE keep_longest = TRUE
    /\ distance_matrix = Zeros(N)
    /\ i = 0
    /\ j = 1
    /\ visited = {}
    /\ groups = <<>>
    /\ group = <<>>
    /\ unique_lines = <<>>
    /\ dist = 0
    /\ result = "pending"

inputs == <<op, lines, threshold, method, keep_longest, canon, points>>

\* a direct call of lines_distance
LinesDistanceCall ==
    /\ pc = "call"
    /\ LET r == lines_distance(canon[1], canon[2], points[1], points[2], method)
       IN /\ result' = IF r.err = "none" THEN "returned" ELSE r.err
          /\ dist' = r.val
    /\ pc' = "done"
    /\ UNCHANGED <<inputs, i, j, distance_matrix, visited, groups, group, unique_lines>>

(***************************************************************************)
(* calculate_line_distances                                                *)
(***************************************************************************)
NeedsPoints_NoHausdorff(m) == m \in {"center", "combined"}

\* method in ['center', 'combined', 'hausdorff']
NeedsPoints(m) == m \in {"center", "combined", "hausdorff"}

MirrorWrite_OneSided(dm, a, b, d) == [dm EXCEPT ![a] = [@ EXCEPT ![b] = d]]

\* distance_matrix[i, j] = distance; distance_matrix[j, i] = distance
MirrorWrite(dm, a, b, d) ==
    [dm EXCEPT ![a] = [@ EXCEPT ![b] = d], ![b] = [@ EXCEPT ![a] = d]]

\* the call of lines_distance for the pair (a, b)
PairDistance(a, b) ==
    lines_distance(line_to_canonical(lines[a]), line_to_canonical(lines[b]),
                   IF NeedsPoints(method) THEN lines[a] ELSE None,
                   IF NeedsPoints(method) THEN lines[b] ELSE None,
                   method)

\* one iteration of the loop over the pairs i < j; an exception ends the call
MatrixStep ==
    /\ pc = "matrix"
    /\ j < N
    /\ LET r == PairDistance(i, j)
       IN IF r.err = "none"
          THEN /\ distance_matrix' = MirrorWrite(distance_matrix, i, j, r.val)
               /\ IF j + 1 < N THEN i' = i /\ j' = j + 1
                               ELSE i' = i + 1 /\ j' = i + 2
               /\ UNCHANGED <<pc, result>>
          ELSE /\ result' = r.err
               /\ pc' = "done"
               /\ UNCHANGED <<distance_matrix, i, j>>
    /\ UNCHANGED <<inputs, visited, groups, group, unique_lines, dist>>

\* return distance_matrix, to the caller or into find_similar_lines
MatrixReturn ==
    /\ pc = "matrix"
    /\ j >= N
    /\ IF op = "calculate_line_distances"
       THEN /\ pc' = "done"
            /\ result' = "returned"
            /\ UNCHANGED <<i, j>>
       ELSE /\ pc' = "outer"
            /\ i' = 0
            /\ j' = 0
            /\ UNCHANGED result
    /\ UNCHANGED <<inputs, distance_matrix, visited, groups, group, unique_lines, dist>>

(***************************************************************************)
(* find_similar_lines                                                      *)
(***************************************************************************)
IsSimilar_NoVisited(vis, dm, a, b, t) == dm[a][b] <= t

IsSimilar_Strict(vis, dm, a, b, t) == b \notin vis /\ dm[a][b] < t

IsSimilar_Chained(vis, dm, a, b, t) ==
    b \notin vis /\ \E c \in vis : dm[c][b] <= t

\* j not in visited and distance_matrix[i, j] <= threshold
IsSimilar(vis, dm, a, b, t) == b \notin vis /\ dm[a][b] <= t

IsFounder_Always(vis, a) == TRUE

\* the test of "if i in visited: continue", negated
IsFounder(vis, a) == a \notin vis

\* if i in visited: continue
OuterSkip ==
    /\ pc = "outer"
    /\ i < N
    /\ ~IsFounder(visited, i)
    /\ i' = i + 1
    /\ UNCHANGED <<inputs, pc, j, distance_matrix, visited, groups, group,
                   unique_lines, dist, result>>

\* group = [i]; visited.add(i)
OuterOpen ==
    /\ pc = "outer"
    /\ i < N
    /\ IsFounder(visited, i)
    /\ group' = <<i>>
    /\ visited' = visited \cup {i}
    /\ j' = 0
    /\ pc' = "inner"
    /\ UNCHANGED <<inputs, i, distance_matrix, groups, unique_lines, dist, result>>

\* one iteration of for j in range(n)
InnerStep ==
    /\ pc = "inner"
    /\ j < N
    /\ IF IsSimilar(visited, distance_matrix, i, j, threshold)
       THEN /\ group' = Append(group, j)
            /\ visited' = visited \cup {j}
       ELSE UNCHANGED <<group, visited>>
    /\ j' = j + 1
    /\ UNCHANGED <<inputs, pc, i, distance_matrix, groups, unique_lines, dist, result>>

\* groups.append(group)
InnerClose ==
    /\ pc = "inner"
    /\ j >= N
    /\ groups' = Append(groups, group)
    /\ i' = i + 1
    /\ pc' = "outer"
    /\ UNCHANGED <<inputs, j, distance_matrix, visited, group, unique_lines, dist, result>>

\* return groups, to the caller or into remove_similar_lines
ClusterReturn ==
    /\ pc = "outer"
    /\ i >= N
    /\ IF op = "find_similar_lines"
       THEN pc' = "done" /\ result' = "returned"
       ELSE pc' = "reduce" /\ UNCHANGED result
    /\ UNCHANGED <<inputs, i, j, distance_matrix, visited, groups, group,
                   unique_lines, dist>>

(***************************************************************************)
(* remove_similar_lines                                                    *)
(***************************************************************************)
line_length(line) ==
    Sqrt((line[3] - line[1]) * Scale * (line[3] - line[1]) * Scale
         + (line[4] - line[2]) * Scale * (line[4] - line[2]) * Scale)

\* max(seq, key=line_length) continued from position k with the best so far
RECURSIVE MaxFrom(_, _, _)
MaxFrom(seq, k, best) ==
    IF k > Len(seq) THEN best
    ELSE MaxFrom(seq, k + 1,
                 IF line_length(seq[k]) > line_length(best) THEN seq[k] ELSE best)

RECURSIVE MaxFrom_Last(_, _, _)
MaxFrom_Last(seq, k, best) ==
    IF k > Len(seq) THEN best
    ELSE MaxFrom_Last(seq, k + 1,
                      IF line_length(seq[k]) >= line_length(best) THEN seq[k] ELSE best)

Longest_LastMax(g, ls) == MaxFrom_Last([k \in 1 .. Len(g) |-> ls[g[k]]], 2, ls[g[1]])

\* max([lines[i] for i in group], key=line_length)
Longest(g, ls) == MaxFrom([k \in 1 .. Len(g) |-> ls[g[k]]], 2, ls[g[1]])

Representative_Line0(g, ls, keep) == ls[0]

\* the line kept for one group
Representative(g, ls, keep) == IF keep THEN Longest(g, ls) ELSE ls[g[1]]

\* one iteration of for group in groups
ReduceStep ==
    /\ pc = "reduce"
    /\ Len(unique_lines) < Len(groups)
    /\ unique_lines' = Append(unique_lines,
                              Representative(groups[Len(unique_lines) + 1], lines, keep_longest))
    /\ UNCHANGED <<inputs, pc, i, j, distance_matrix, visited, groups, group, dist, result>>

\* return unique_lines
ReduceReturn ==
    /\ pc = "reduce"
    /\ Len(unique_lines) >= Len(groups)
    /\ pc' = "done"
    /\ result' = "returned"
    /\ UNCHANGED <<inputs, i, j, distance_matrix, visited, groups, group, unique_lines, dist>>

Next ==
    \/ LinesDistanceCall
    \/ MatrixStep
    \/ MatrixReturn
    \/ OuterSkip
    \/ OuterOpen
    \/ InnerStep
    \/ InnerClose
    \/ ClusterReturn
    \/ ReduceStep
    \/ ReduceReturn

Spec == Init /\ [][Next]_vars

(***************************************************************************)
(* Properties                                                              *)
(***************************************************************************)
Errors == {"UnknownMethod", "InvalidArgument", "ZeroDivisionError"}

Indices == 0 .. (N - 1)

\* find_similar_lines has returned its groups
ClusterReturned ==
    /\ op \in {"find_similar_lines", "remove_similar_lines"}
    /\ pc \in {"reduce", "done"}
    /\ result \notin Errors

\* the positions (group, place) at which index x occurs in the groups
Occurrences(x) ==
    {<<g, k>> \in (1 .. Len(groups)) \X (1 .. N) :
        k <= Len(groups[g]) /\ groups[g][k] = x}

Members(g) == {g[k] : k \in 1 .. Len(g)}

Founders == {groups[g][1] : g \in 1 .. Len(groups)}

\* C1: the groups returned by find_similar_lines are non-empty, hold only
\* indices of the batch, and every index 0..N-1 occurs in exactly one group
\* exactly once.
C1_Partition ==
    ClusterReturned =>
        /\ \A g \in 1 .. Len(groups) :
              Len(groups[g]) >= 1 /\ Members(groups[g]) \subseteq Indices
        /\ \A x \in Indices : Cardinality(Occurrences(x)) = 1

C1_Witness ==
    /\ ClusterReturned
    /\ N = 3
    /\ Len(groups) = 2
    /\ Len(groups[1]) = 2

\* C2: an inner step at j appends j to the open group and marks it visited
\* exactly when j is unvisited and distance_matrix[i][j] <= threshold, and
\* changes neither otherwise; hence in the open group and in every finished
\* group each member other than the founder is within the threshold of the
\* founder, whatever its distance to the other members.
FounderSeeded(g) ==
    \A k \in 2 .. Len(g) : distance_matrix[g[1]][g[k]] <= threshold

C2_FounderOnly ==
    /\ [][(pc = "inner" /\ j < N) =>
            IF j \notin visited /\ distance_matrix[i][j] <= threshold
            THEN group' = Append(group, j) /\ visited' = visited \cup {j}
            ELSE group' = group /\ visited' = visited]_vars
    /\ [](pc = "inner" => group[1] = i /\ FounderSeeded(group))
    /\ [](\A g \in 1 .. Len(groups) : FounderSeeded(groups[g]))

\* a finished group with a member m and an outsider x that is within the
\* threshold of m but not of the founder
C2_Witness ==
    /\ ClusterReturned
    /\ \E g \in 1 .. Len(groups) : \E m \in Members(groups[g]) :
          \E x \in Indices \ Members(groups[g]) :
             /\ distance_matrix[m][x] <= threshold
             /\ distance_matrix[groups[g][1]][x] > threshold

\* C9: when the outer loop is at i, every smaller index is visited; the
\* returned groups are strictly ascending inside, ascending by founder, and
\* the first group is founded by index 0.
Ascending(g) == \A k \in 1 .. (Len(g) - 1) : g[k] < g[k + 1]

C9_Ordered ==
    /\ pc = "outer" => \A x \in Indices : x < i => x \in visited
    /\ ClusterReturned =>
          /\ \A g \in 1 .. Len(groups) : Ascending(groups[g])
          /\ \A g \in 1 .. (Len(groups) - 1) : groups[g][1] < groups[g + 1][1]
          /\ N >= 1 => groups[1][1] = 0

C9_Witness ==
    /\ ClusterReturned
    /\ N = 3
    /\ groups = << <<0, 2>>, <<1>> >>

\* C10: no founder is within the threshold of an earlier founder; the
\* founders are the lexicographically first maximal set of indices that are
\* pairwise not within the threshold; every other index is within the
\* threshold of a smaller founder.
Apart(S) ==
    \A a \in S : \A b \in S : a < b => ~(distance_matrix[a][b] <= threshold)

MaximalApart(S) ==
    Apart(S) /\ \A x \in Indices \ S : ~Apart(S \cup {x})

Least(S) == CHOOSE x \in S : \A y \in S : x <= y

C10_Founders ==
    ClusterReturned =>
        /\ Apart(Founders)
        /\ MaximalApart(Founders)
        /\ \A S \in SUBSET Indices :
              (MaximalApart(S) /\ S # Founders) =>
                  Least((S \ Founders) \cup (Founders \ S)) \in Founders
        /\ \A x \in Indices \ Founders :
              \E f \in Founders : f < x /\ distance_matrix[f][x] <= threshold

\* two founders and a third index that joined a founder at a distance equal
\* to the threshold
C10_Witness ==
    /\ ClusterReturned
    /\ Cardinality(Founders) >= 2
    /\ \E x \in Indices \ Founders : \E f \in Founders :
          f < x /\ distance_matrix[f][x] = threshold

\* remove_similar_lines has returned unique_lines
ReduceReturned ==
    op = "remove_similar_lines" /\ pc = "done" /\ result = "returned"

\* C3: remove_similar_lines returns one line per group of find_similar_lines,
\* in the order of the groups: as many lines as groups, the k-th being the
\* line of an index of the k-th group.
C3_OnePerGroup ==
    /\ (op = "remove_similar_lines" /\ pc = "reduce") =>
          Len(unique_lines) <= Len(groups)
    /\ ReduceReturned => Len(unique_lines) = Len(groups)
    /\ op = "remove_similar_lines" =>
          \A k \in 1 .. Len(unique_lines) :
             \E x \in Members(groups[k]) : unique_lines[k] = lines[x]

\* three lines reduced to two, the second kept line not being line 0
C3_Witness ==
    /\ ReduceReturned
    /\ N = 3
    /\ Len(unique_lines) = 2
    /\ Len(groups[1]) = 2
    /\ unique_lines[2] # lines[0]

\* endpoint-to-endpoint length of line x of the batch, squared (exact)
SquaredLength(x) ==
    (lines[x][3] - lines[x][1]) * (lines[x][3] - lines[x][1])
    + (lines[x][4] - lines[x][2]) * (lines[x][4] - lines[x][2])

\* the place in group g of its first member of maximum length
FirstLongest(g) ==
    CHOOSE k \in 1 .. Len(g) :
        /\ \A q \in 1 .. Len(g) : SquaredLength(g[q]) <= SquaredLength(g[k])
        /\ \A q \in 1 .. (k - 1) : SquaredLength(g[q]) < SquaredLength(g[k])

\* C4: with keep_longest the line kept for a group is its first member of
\* maximum length; without, it is the group's first member, the index that
\* founded the group.
C4_Representative ==
    /\ pc = "inner" => group[1] = i
    /\ op = "remove_similar_lines" =>
          \A k \in 1 .. Len(unique_lines) :
             unique_lines[k] =
                IF keep_longest THEN lines[groups[k][FirstLongest(groups[k])]]
                                ELSE lines[groups[k][1]]

\* a group whose longest lines are two different lines of the same length,
\* and whose first member is shorter
C4_Witness ==
    /\ ReduceReturned
    /\ keep_longest
    /\ \E k \in 1 .. Len(groups) :
          /\ Len(groups[k]) = 3
          /\ FirstLongest(groups[k]) = 2
          /\ SquaredLength(groups[k][3]) = SquaredLength(groups[k][2])
          /\ lines[groups[k][3]] # lines[groups[k][2]]

\* calculate_line_distances has returned the matrix
MatrixReturned == op \in BatchOps /\ pc # "matrix" /\ result \notin Errors

\* C5: the matrix is N x N, symmetric, with a zero diagonal, at every step of
\* its construction and when returned; a step computes one pair i < j and
\* writes the value to (i, j) and (j, i) and nowhere else.
C5_Symmetric ==
    /\ [](op \in BatchOps =>
            /\ DOMAIN distance_matrix = Indices
            /\ \A a \in Indices : DOMAIN distance_matrix[a] = Indices
            /\ \A a \in Indices : distance_matrix[a][a] = 0
            /\ \A a \in Indices : \A b \in Indices :
                  distance_matrix[a][b] = distance_matrix[b][a])
    /\ [][(pc = "matrix" /\ j < N /\ pc' = "matrix") =>
            /\ i < j
            /\ distance_matrix'[i][j] = PairDistance(i, j).val
            /\ distance_matrix'[j][i] = PairDistance(i, j).val
            /\ \A a \in Indices : \A b \in Indices :
                  {a, b} # {i, j} => distance_matrix'[a][b] = distance_matrix[a][b]]_vars
    /\ [][pc # "matrix" => distance_matrix' = distance_matrix]_vars

C5_Witness ==
    /\ MatrixReturned
    /\ op = "calculate_line_distances"
    /\ pc = "done"
    /\ N = 3
    /\ \A a \in Indices : \A b \in Indices : a # b => distance_matrix[a][b] > 0
    /\ distance_matrix[0][1] # distance_matrix[1][2]

\* C6 as stated: with a method outside the five, every batch call fails with
\* UnknownMethod.
C6_Original ==
    (op \in BatchOps /\ method \notin ValidMethods /\ pc = "done") =>
        result = "UnknownMethod"

\* C6, amended: with a method outside the five, lines_distance fails with
\* UnknownMethod, and so does every batch call on two or more lines, at the
\* first pair, with no group and no kept line built; on fewer than two lines
\* lines_distance is never called and the batch call returns.
C6_Amended ==
    method \notin ValidMethods =>
        /\ (op = "lines_distance" /\ pc = "done") => result = "UnknownMethod"
        /\ (op \in BatchOps /\ N >= 2) =>
              /\ pc \in {"matrix", "done"}
              /\ pc = "done" => result = "UnknownMethod"
              /\ distance_matrix = Zeros(N)
              /\ groups = <<>>
              /\ unique_lines = <<>>
        /\ (op \in BatchOps /\ N < 2 /\ pc = "done") => result = "returned"

C6_Witness ==
    /\ method \notin ValidMethods
    /\ op = "remove_similar_lines"
    /\ N = 3
    /\ pc = "done"
    /\ result = "UnknownMethod"

\* C7: lines_distance fails with InvalidArgument exactly when the method is
\* center, combined or hausdorff and a points argument is absent, whatever
\* the lines are (the check precedes every computation); the batch calls
\* never fail with InvalidArgument under one of the five methods.
C7_InvalidArgument ==
    /\ (op = "lines_distance" /\ pc = "done") =>
          (result = "InvalidArgument" <=>
              /\ method \in {"center", "combined", "hausdorff"}
              /\ (points[1] = None \/ points[2] = None))
    /\ (op \in BatchOps /\ method \in ValidMethods) => result # "InvalidArgument"

\* absent points reported although a line is degenerate
C7_Witness ==
    /\ op = "lines_distance"
    /\ pc = "done"
    /\ method = "combined"
    /\ points[1] = None
    /\ points[2] # None
    /\ line_norm(canon[1]) = 0
    /\ result = "InvalidArgument"

\* a segment with its two endpoints swapped
Reversed(s) == <<s[3], s[4], s[1], s[2]>>

\* C8: for two segments of non-zero length and each of the five methods, the
\* distance is the same when the endpoints of the first or of the second
\* segment are swapped.
C8_DirectionFree ==
    (/\ op = "lines_distance"
     /\ pc = "done"
     /\ method \in ValidMethods
     /\ points[1] # None
     /\ points[2] # None
     /\ line_norm(canon[1]) # 0
     /\ line_norm(canon[2]) # 0) =>
        /\ lines_distance(line_to_canonical(Reversed(points[1])), canon[2],
                          Reversed(points[1]), points[2], method) = Ok(dist)
        /\ lines_distance(canon[1], line_to_canonical(Reversed(points[2])),
                          points[1], Reversed(points[2]), method) = Ok(dist)

====
